---------------------------- MODULE Spec2Model ----------------------------
(* A model of the batch tools of alien-ai:                                  *)
(*   run_batch.py      uploads a request artifact, creates a batch job,     *)
(*                     polls it to a terminal status and downloads the      *)
(*                     output and error files;                              *)
(*   generate_jsonl.py encodes a list of image URLs into the artifact.      *)
(* The remote batch service is an external collaborator: every answer it    *)
(* gives is a nondeterministic choice, unless a stub with a canned script   *)
(* of answers is installed for a job.                                       *)
EXTENDS Integers, Sequences, FiniteSets, TLC

\* ------------------------------------------------------------- bounds
\* Largest number of get-job queries one polling loop issues in the model.
MaxQueries == 3
\* Number of request lines of the job artifact.
MaxReq == 2
\* Largest number of lines of the URL file the encoder reads.
MaxUrls == 2
\* Largest length of the generated lines of the URL file.
MaxLineLen == 2

\* The files in the directory rate_images reads.
MaxImages == 2

\* ---------------------------------------------------------- constants
\* Python's None, also the value of an attribute a snapshot does not have.
None == "None"

\* run_batch.py:16
TERMINAL == {"completed", "failed", "expired", "cancelled"}

\* Statuses of the remote state machine that are not terminal.
NonTerminal == {"validating", "in_progress"}

\* The orchestrator processes that may run side by side.
Runs == {1, 2}

\* Job identifiers the remote service hands out.
Jobs == {"batch_A", "batch_B"}

\* The default of --input (run_batch.py:25).
DefaultInput == [dir |-> "", stem |-> "batch_input", suffix |-> ".jsonl"]

\* The default of --poll (run_batch.py:27).
DefaultPoll == 15

\* The request lines of an artifact, each identified by its custom_id.
Artifact == [i \in 1..MaxReq |-> i]

\* ------------------------------------------------------------ helpers
Last(s) == s[Len(s)]

Range(s) == {s[i] : i \in DOMAIN s}

\* pathlib: the full name of a path, its last component, its stem.
PathStr(p) == p.dir \o p.stem \o p.suffix

PathName(p) == p.stem \o p.suffix

\* run_batch.py:56
DefaultStem(p) == IF PathName(p) # "" THEN p.stem ELSE "batch"

\* run_batch.py:57
OutPath(a) == IF a.out # None THEN a.out ELSE DefaultStem(a.input) \o "_output.jsonl"

\* run_batch.py:58
ErrPath(a) == IF a.err # None THEN a.err ELSE DefaultStem(a.input) \o "_errors.jsonl"

\* The file ids a job's snapshot may refer to.
OutId(j) == "out_" \o j

ErrId(j) == "err_" \o j

\* The request_counts a snapshot may carry, as <<total, completed, failed>>;
\* NoCounts: the attribute is absent or None.
NoCounts == <<>>

CountsSet == {NoCounts, <<MaxReq, 1, 0>>}

\* A BatchJob variable that is not bound yet.
NoJob ==
    [id |-> None, status |-> None, request_counts |-> NoCounts,
     output_file_id |-> None, error_file_id |-> None]

\* Every snapshot the service may answer a get-job of job j with.
Snapshots(j) ==
    [id : {j},
     status : TERMINAL \cup NonTerminal \cup {None},
     request_counts : CountsSet,
     output_file_id : {None, OutId(j)},
     error_file_id : {None, ErrId(j)}]

\* The snapshot create-job answers with.
Created(j) ==
    [id |-> j, status |-> "validating", request_counts |-> NoCounts,
     output_file_id |-> None, error_file_id |-> None]

\* run_batch.py:63  getattr(b, "status", "unknown")
StatusOf(snap) == IF snap.status = None THEN "unknown" ELSE snap.status

\* run_batch.py:64  getattr(b, "request_counts", None)
CountsOf(snap) == snap.request_counts

\* The contents a downloaded result file may have: any sub-sequence of the
\* job's request lines.
Keep(s, S) == SelectSeq(s, LAMBDA x : x \in S)

Contents(art) == {Keep(art, S) : S \in SUBSET Range(art)}

VARIABLES
    args,      \* run -> the parsed command line
    pc,        \* run -> its position in main()
    fs,        \* the working directory: path -> file content
    wrote,     \* path -> the runs that have written it
    f,         \* run -> the file handle upload returned
    batch_id,  \* run -> the job it polls
    b,         \* run -> the BatchJob snapshot it holds
    status,    \* run -> the loop's status variable
    counts,    \* run -> the loop's counts variable
    last,      \* run -> the operation it issued last
    issued,    \* run -> how many operations of each kind it has issued
    fetched,   \* run -> the file ids it has asked the content of, in order
    rfiles,    \* remote: file handle -> uploaded content
    jobs,      \* remote: job id -> the job's input file and window
    served,    \* remote: job id -> the last snapshot get-job answered
    stub,      \* job id -> the canned answers still to give (<<>>: none)
    enc_args,  \* generate_jsonl: the parsed command line
    enc_pc,    \* generate_jsonl: the position in main()
    url_file,  \* generate_jsonl: the lines of the --urls file
    urls,      \* generate_jsonl: the urls list
    idx,       \* generate_jsonl: the index enumerate() is at
    out_dir,   \* generate_jsonl: whether the directory of --out exists
    out_file,  \* generate_jsonl: the file at --out
    earlier,   \* generate_jsonl: the urls and the file of the run before this one
    rate_pc,   \* rate_images: the position in main()
    input_dir, \* rate_images: the names of the entries of INPUT_DIR
    images,    \* rate_images: the images list
    rows,      \* rate_images: the rows list
    rated,     \* rate_images: what rate_image did for each image so far
    out_csv    \* rate_images: the file at OUT_CSV

\* The state of run_batch and of the remote service.
runVars == <<args, pc, fs, wrote, f, batch_id, b, status, counts, last, issued, fetched,
             rfiles, jobs, served, stub>>

\* The state of generate_jsonl.
encVars == <<enc_args, enc_pc, url_file, urls, idx, out_dir, out_file, earlier>>

\* The state of rate_images.
rateVars == <<rate_pc, input_dir, images, rows, rated, out_csv>>

vars == <<runVars, encVars, rateVars>>

\* What a run has done so far, as far as the model records it.
trace == <<last, issued, fetched>>


\* --------------------------------------------------- the remote service
\* The kinds of operations a run issues.
Kinds == {"upload", "create", "get", "report", "sleep", "download", "finished"}

\* A remote operation, with what it was issued on and what it yielded
\* ("error": it raised).
Op(op, target, val) ==
    [op |-> op, target |-> target, val |-> val, secs |-> 0, counts |-> NoCounts]

\* A progress line: the status, and the counts when there are some.
Progress(st, cn) ==
    [op |-> "report", target |-> st, val |-> None, secs |-> 0, counts |-> cn]

\* A wait of the polling loop.
Wait(secs) ==
    [op |-> "sleep", target |-> None, val |-> IF secs < 0 THEN "error" ELSE None,
     secs |-> secs, counts |-> NoCounts]

\* Nothing issued yet.
NoOp == Op(None, None, None)

\* Run r issues e.
Logged(r, e) ==
    /\ last' = [last EXCEPT ![r] = e]
    /\ issued' = [issued EXCEPT ![r][e.op] = @ + 1]
    /\ fetched' = [fetched EXCEPT ![r] = IF e.op = "download" THEN Append(@, e.target) ELSE @]

\* What get-job of job j may answer: the stub's next canned answer, or,
\* from the live service, any snapshot of the job.
Answers(j) == IF stub[j] # <<>> THEN {Head(stub[j])} ELSE Snapshots(j)

\* A stub ticks through its script and then repeats its last answer.
Ticked(j) ==
    IF Len(stub[j]) > 1 THEN [stub EXCEPT ![j] = Tail(@)] ELSE stub

\* get-job(j) answered with snap.
GetJob(j, snap) ==
    /\ j \in DOMAIN jobs
    /\ snap \in Answers(j)
    /\ served' = [served EXCEPT ![j] = snap]
    /\ stub' = Ticked(j)


\* ------------------------------------------------------ run_batch.main
\* A faulty variant of Resuming: the resume branch is never taken.
ResumingNever(a) == FALSE

\* run_batch.py:36  the branch taken at "if not args.resume".
Resuming(a) == a.resume # None

\* The number of get-job queries the polling loop of run r has issued: a
\* resumed run has issued one more, before the loop (run_batch.py:53).
LoopQueries(r) ==
    issued[r]["get"] - (IF Resuming(args[r]) THEN 1 ELSE 0)

\* A faulty variant of ExitNoInput: the upload is issued before the file is
\* found missing.
ExitAfterUpload(r) ==
    /\ pc[r] = "start"
    /\ ~Resuming(args[r])
    /\ PathStr(args[r].input) \notin DOMAIN fs
    /\ Logged(r, Op("upload", PathStr(args[r].input), "error"))
    /\ pc' = [pc EXCEPT ![r] = "exit"]
    /\ UNCHANGED <<encVars, rateVars, args, fs, wrote, f, batch_id, b, status, counts,
                   rfiles, jobs, served, stub>>

\* run_batch.py:37-41  the input file is missing: sys.exit.
ExitNoInput(r) ==
    /\ pc[r] = "start"
    /\ ~Resuming(args[r])
    /\ PathStr(args[r].input) \notin DOMAIN fs
    /\ pc' = [pc EXCEPT ![r] = "exit"]
    /\ UNCHANGED <<encVars, rateVars, args, fs, wrote, f, batch_id, b, status, counts, trace,
                   rfiles, jobs, served, stub>>

\* run_batch.py:39-41  client.files.create succeeds and yields a handle.
Upload(r) ==
    /\ pc[r] = "start"
    /\ ~Resuming(args[r])
    /\ PathStr(args[r].input) \in DOMAIN fs
    /\ \E h \in {"file_1", "file_2"} \ DOMAIN rfiles :
          /\ rfiles' = (h :> fs[PathStr(args[r].input)]) @@ rfiles
          /\ f' = [f EXCEPT ![r] = h]
          /\ Logged(r, Op("upload", PathStr(args[r].input), h))
    /\ pc' = [pc EXCEPT ![r] = "create"]
    /\ UNCHANGED <<encVars, rateVars, args, fs, wrote, batch_id, b, status, counts, jobs, served, stub>>

\* run_batch.py:40  client.files.create raises: the exception ends the run.
UploadFails(r) ==
    /\ pc[r] = "start"
    /\ ~Resuming(args[r])
    /\ PathStr(args[r].input) \in DOMAIN fs
    /\ Logged(r, Op("upload", PathStr(args[r].input), "error"))
    /\ pc' = [pc EXCEPT ![r] = "raised"]
    /\ UNCHANGED <<encVars, rateVars, args, fs, wrote, f, batch_id, b, status, counts,
                   rfiles, jobs, served, stub>>

\* A faulty variant of CreateHandle: a handle other than the uploaded one.
CreateHandleStale(r) == "file_0"

\* run_batch.py:44  the file handle create-job is given.
CreateHandle(r) == f[r]

\* run_batch.py:43-49  client.batches.create succeeds.
Create(r) ==
    /\ pc[r] = "create"
    /\ \E j \in Jobs \ DOMAIN jobs :
          /\ jobs' = (j :> [input_file_id |-> CreateHandle(r),
                            completion_window |-> args[r].window]) @@ jobs
          /\ b' = [b EXCEPT ![r] = Created(j)]
          /\ batch_id' = [batch_id EXCEPT ![r] = j]
          /\ Logged(r, Op("create", CreateHandle(r), j))
    /\ pc' = [pc EXCEPT ![r] = "poll"]
    /\ UNCHANGED <<encVars, rateVars, args, fs, wrote, f, status, counts, rfiles, served, stub>>

\* run_batch.py:44  client.batches.create raises.
CreateFails(r) ==
    /\ pc[r] = "create"
    /\ Logged(r, Op("create", CreateHandle(r), "error"))
    /\ pc' = [pc EXCEPT ![r] = "raised"]
    /\ UNCHANGED <<encVars, rateVars, args, fs, wrote, f, batch_id, b, status, counts,
                   rfiles, jobs, served, stub>>

\* run_batch.py:51-53  resume: take the given job id and retrieve it once.
Resume(r) ==
    /\ pc[r] = "start"
    /\ Resuming(args[r])
    /\ batch_id' = [batch_id EXCEPT ![r] = args[r].resume]
    /\ \E snap \in Answers(args[r].resume) :
          /\ GetJob(args[r].resume, snap)
          /\ b' = [b EXCEPT ![r] = snap]
          /\ Logged(r, Op("get", args[r].resume, StatusOf(snap)))
    /\ pc' = [pc EXCEPT ![r] = "poll"]
    /\ UNCHANGED <<encVars, rateVars, args, fs, wrote, f, status, counts, rfiles, jobs>>

\* run_batch.py:53  client.batches.retrieve raises.
ResumeFails(r) ==
    /\ pc[r] = "start"
    /\ Resuming(args[r])
    /\ batch_id' = [batch_id EXCEPT ![r] = args[r].resume]
    /\ Logged(r, Op("get", args[r].resume, "error"))
    /\ pc' = [pc EXCEPT ![r] = "raised"]
    /\ UNCHANGED <<encVars, rateVars, args, fs, wrote, f, b, status, counts, rfiles, jobs, served, stub>>

\* run_batch.py:62  the job the loop queries.
PollTarget(r) == batch_id[r]

\* A faulty variant of Polled: only the status of the answer is kept, the
\* counts and refs stay those of the snapshot held before.
PolledStatusOnly(r, snap) == [b EXCEPT ![r].id = snap.id, ![r].status = snap.status]

\* run_batch.py:62  what the loop keeps of the answer.
Polled(r, snap) == [b EXCEPT ![r] = snap]

\* run_batch.py:62-64  one query of the loop: b, status and counts are
\* taken from the answer.
Retrieve(r) ==
    /\ pc[r] = "poll"
    /\ LoopQueries(r) < MaxQueries
    /\ \E snap \in Answers(PollTarget(r)) :
          /\ GetJob(PollTarget(r), snap)
          /\ b' = Polled(r, snap)
          /\ Logged(r, Op("get", PollTarget(r), StatusOf(snap)))
    /\ status' = [status EXCEPT ![r] = StatusOf(b'[r])]
    /\ counts' = [counts EXCEPT ![r] = CountsOf(b'[r])]
    /\ pc' = [pc EXCEPT ![r] = "report"]
    /\ UNCHANGED <<encVars, rateVars, args, fs, wrote, f, batch_id, rfiles, jobs>>

\* run_batch.py:62  client.batches.retrieve raises inside the loop.
RetrieveFails(r) ==
    /\ pc[r] = "poll"
    /\ LoopQueries(r) < MaxQueries
    /\ Logged(r, Op("get", PollTarget(r), "error"))
    /\ pc' = [pc EXCEPT ![r] = "raised"]
    /\ UNCHANGED <<encVars, rateVars, args, fs, wrote, f, batch_id, b, status, counts,
                   rfiles, jobs, served, stub>>

\* A faulty variant of IsTerminal: only "completed" ends the loop.
IsTerminalCompletedOnly(s) == s = "completed"

\* Another faulty variant of IsTerminal: "unknown" ends the loop too.
IsTerminalOrUnknown(s) == s \in TERMINAL \cup {"unknown"}

\* run_batch.py:69  the loop's exit test.
IsTerminal(s) == s \in TERMINAL

\* run_batch.py:65-70  print the progress line, then leave the loop on a
\* terminal status.
Report(r) ==
    /\ pc[r] = "report"
    /\ Logged(r, Progress(status[r], counts[r]))
    /\ pc' = [pc EXCEPT ![r] = IF IsTerminal(status[r]) THEN "dl_out" ELSE "sleep"]
    /\ UNCHANGED <<encVars, rateVars, args, fs, wrote, f, batch_id, b, status, counts,
                   rfiles, jobs, served, stub>>

\* run_batch.py:71  time.sleep(args.poll); a negative length raises
\* ValueError.
Sleep(r) ==
    /\ pc[r] = "sleep"
    /\ Logged(r, Wait(args[r].poll))
    /\ pc' = [pc EXCEPT ![r] = IF args[r].poll < 0 THEN "raised" ELSE "poll"]
    /\ UNCHANGED <<encVars, rateVars, args, fs, wrote, f, batch_id, b, status, counts,
                   rfiles, jobs, served, stub>>

\* run_batch.py:18-21  save_file: download file_id and write it to path.
\* The service answers with some content made of the job's request lines.
SaveFile(r, file_id, path) ==
    \E data \in Contents(rfiles[jobs[b[r].id].input_file_id]) :
       /\ fs' = (path :> data) @@ fs
       /\ wrote' = (path :> ((IF path \in DOMAIN wrote THEN wrote[path] ELSE {}) \cup {r})) @@ wrote
       /\ Logged(r, Op("download", file_id, path))

\* run_batch.py:74  the output ref the run acts on.
OutputRef(r) == b[r].output_file_id

\* A faulty variant of ErrorRef: the error file is looked at only when
\* there is no output file.
ErrorRefElse(r) == IF b[r].output_file_id # None THEN None ELSE b[r].error_file_id

\* run_batch.py:80  the error ref the run acts on.
ErrorRef(r) == b[r].error_file_id

\* run_batch.py:74-78  download the output file if the snapshot names one.
DownloadOutput(r) ==
    /\ pc[r] = "dl_out"
    /\ IF OutputRef(r) # None
          THEN SaveFile(r, OutputRef(r), OutPath(args[r]))
          ELSE UNCHANGED <<fs, wrote, trace>>
    /\ pc' = [pc EXCEPT ![r] = "dl_err"]
    /\ UNCHANGED <<encVars, rateVars, args, f, batch_id, b, status, counts, rfiles, jobs, served, stub>>

\* run_batch.py:19  client.files.content raises for the output file.
DownloadOutputFails(r) ==
    /\ pc[r] = "dl_out"
    /\ OutputRef(r) # None
    /\ Logged(r, Op("download", OutputRef(r), "error"))
    /\ pc' = [pc EXCEPT ![r] = "raised"]
    /\ UNCHANGED <<encVars, rateVars, args, fs, wrote, f, batch_id, b, status, counts,
                   rfiles, jobs, served, stub>>

\* run_batch.py:80-83  download the error file if the snapshot names one.
DownloadErrors(r) ==
    /\ pc[r] = "dl_err"
    /\ IF ErrorRef(r) # None
          THEN SaveFile(r, ErrorRef(r), ErrPath(args[r]))
          ELSE UNCHANGED <<fs, wrote, trace>>
    /\ pc' = [pc EXCEPT ![r] = "finish"]
    /\ UNCHANGED <<encVars, rateVars, args, f, batch_id, b, status, counts, rfiles, jobs, served, stub>>

\* run_batch.py:19  client.files.content raises for the error file.
DownloadErrorsFails(r) ==
    /\ pc[r] = "dl_err"
    /\ ErrorRef(r) # None
    /\ Logged(r, Op("download", ErrorRef(r), "error"))
    /\ pc' = [pc EXCEPT ![r] = "raised"]
    /\ UNCHANGED <<encVars, rateVars, args, fs, wrote, f, batch_id, b, status, counts,
                   rfiles, jobs, served, stub>>

\* run_batch.py:85  the closing line, with the status of the snapshot held.
Finish(r) ==
    /\ pc[r] = "finish"
    /\ Logged(r, Op("finished", batch_id[r], b[r].status))
    /\ pc' = [pc EXCEPT ![r] = "done"]
    /\ UNCHANGED <<encVars, rateVars, args, fs, wrote, f, batch_id, b, status, counts,
                   rfiles, jobs, served, stub>>

\* ------------------------------------------------------ generate_jsonl
\* Strings the encoder looks into are sequences of one-character strings.
Lower == {"a", "b", "c", "d", "e", "f", "g", "h", "i", "j", "k", "l", "m",
          "n", "o", "p", "q", "r", "s", "t", "u", "v", "w", "x", "y", "z"}

Upper == {"A", "B", "C", "D", "E", "F", "G", "H", "I", "J", "K", "L", "M",
          "N", "O", "P", "Q", "R", "S", "T", "U", "V", "W", "X", "Y", "Z"}

Digit == {"0", "1", "2", "3", "4", "5", "6", "7", "8", "9"}

\* A faulty variant of StemChars: the full stop is not kept.
StemCharsNoDot == Lower \cup Upper \cup Digit \cup {"_", "-"}

\* generate_jsonl.py:52  the characters the regular expression keeps.
StemChars == Lower \cup Upper \cup Digit \cup {".", "_", "-"}

\* The characters str.strip() removes (no line of the file holds a line
\* break).
Whitespace == {" ", "\t"}

\* str.strip()
RECURSIVE LStrip(_)
LStrip(str) ==
    IF str # <<>> /\ Head(str) \in Whitespace THEN LStrip(Tail(str)) ELSE str

RECURSIVE RStrip(_)
RStrip(str) ==
    IF str # <<>> /\ Last(str) \in Whitespace
       THEN RStrip(SubSeq(str, 1, Len(str) - 1))
       ELSE str

Strip(str) == RStrip(LStrip(str))

\* str.split(c)[0]: what precedes the first c.
RECURSIVE SplitFirst(_, _)
SplitFirst(str, c) ==
    IF str = <<>> \/ Head(str) = c
       THEN <<>>
       ELSE <<Head(str)>> \o SplitFirst(Tail(str), c)

\* str.split(c)[-1]: what follows the last c.
RECURSIVE SplitLast(_, _)
SplitLast(str, c) ==
    IF c \notin Range(str)
       THEN str
       ELSE SplitLast(SubSeq(str, Len(SplitFirst(str, c)) + 2, Len(str)), c)

\* generate_jsonl.py:52  re.sub(r"[^A-Za-z0-9._-]", "_", stem)
Sanitized(str) == [i \in DOMAIN str |-> IF str[i] \in StemChars THEN str[i] ELSE "_"]

\* generate_jsonl.py:53  the length stems are cut to.
StemMax == 60

\* A faulty variant of safe_stem_from_url: the last segment is taken before
\* the query is cut off.
safe_stem_segment_first(url) ==
    LET seg == SplitFirst(SplitLast(Strip(url), "/"), "?")
        stem == Sanitized(IF seg # <<>> THEN seg ELSE <<"i", "m", "a", "g", "e">>)
    IN  SubSeq(stem, 1, IF Len(stem) < StemMax THEN Len(stem) ELSE StemMax)

\* generate_jsonl.py:49-53
safe_stem_from_url(url) ==
    LET seg == SplitLast(SplitFirst(Strip(url), "?"), "/")
        stem == Sanitized(IF seg # <<>> THEN seg ELSE <<"i", "m", "a", "g", "e">>)
    IN  SubSeq(stem, 1, IF Len(stem) < StemMax THEN Len(stem) ELSE StemMax)

\* The decimal digits of a natural number.
RECURSIVE Decimal(_)
Decimal(n) ==
    IF n < 10
       THEN <<CHOOSE d \in Digit : d = ToString(n)>>
       ELSE Decimal(n \div 10) \o <<CHOOSE d \in Digit : d = ToString(n % 10)>>

\* generate_jsonl.py:67  the format {idx:05d}: zero-padded to five digits,
\* longer numbers in full.
Padded(n) ==
    LET d == Decimal(n)
    IN  [i \in 1..(IF Len(d) < 5 THEN 5 - Len(d) ELSE 0) |-> "0"] \o d

\* A faulty variant of CustomId: the index is left out of the identifier.
CustomIdNoIndex(i, url) == <<"u", "i", "-">> \o safe_stem_from_url(url)

\* generate_jsonl.py:67
CustomId(i, url) == <<"u", "i", "-">> \o Padded(i) \o <<"-">> \o safe_stem_from_url(url)

\* generate_jsonl.py:28-35
DIMENSIONS ==
    <<"aesthetics", "level_of_detail", "utility_for_designer", "orderliness",
      "complexity", "overall">>

\* A faulty variant of Keys: the names in reverse order.
KeysReversed(names) == [i \in DOMAIN names |-> names[Len(names) + 1 - i]]

\* The keys of a dict filled in the order of a list: each name once, in the
\* order of its first occurrence.
RECURSIVE Keys(_)
Keys(names) ==
    IF names = <<>>
       THEN <<>>
       ELSE LET init == Keys(SubSeq(names, 1, Len(names) - 1))
            IN  IF Last(names) \in Range(init) THEN init ELSE Append(init, Last(names))

\* generate_jsonl.py:55-64
build_json_schema(dimensions) ==
    [type |-> "object",
     additionalProperties |-> FALSE,
     properties |-> [d \in Range(dimensions) |->
                        [type |-> "integer", minimum |-> 1, maximum |-> 10]],
     required |-> Keys(dimensions)]

\* A faulty variant of make_request_line: the custom_id tells the models
\* apart.
make_request_line_per_model(i, url, model, temperature) ==
    [custom_id |-> CustomId(i, url) \o (IF model = "gpt-4o" THEN <<>> ELSE <<"-", "m">>),
     method |-> "POST",
     url |-> "/v1/responses",
     body |-> [model |-> model,
               input_text |-> "PROMPT",
               image_url |-> Strip(url),
               format |-> [type |-> "json_schema", name |-> "UIRatings", strict |-> TRUE,
                           schema |-> build_json_schema(DIMENSIONS)],
               temperature |-> temperature,
               max_output_tokens |-> 400]]

\* generate_jsonl.py:66-98
make_request_line(i, url, model, temperature) ==
    [custom_id |-> CustomId(i, url),
     method |-> "POST",
     url |-> "/v1/responses",
     body |-> [model |-> model,
               input_text |-> "PROMPT",
               image_url |-> Strip(url),
               format |-> [type |-> "json_schema", name |-> "UIRatings", strict |-> TRUE,
                           schema |-> build_json_schema(DIMENSIONS)],
               temperature |-> temperature,
               max_output_tokens |-> 400]]

\* json.dumps of a str (ensure_ascii=False): the quotation mark, the
\* backslash and the tab are escaped, every other character of a line is
\* written as it is.
\* A faulty variant of Escaped: nothing is escaped.
EscapedNothing(str) == str

RECURSIVE Escaped(_)
Escaped(str) ==
    IF str = <<>>
       THEN <<>>
       ELSE (CASE Head(str) = "\"" -> <<"\\", "\"">>
               [] Head(str) = "\\" -> <<"\\", "\\">>
               [] Head(str) = "\t" -> <<"\\", "t">>
               [] OTHER -> <<Head(str)>>) \o Escaped(Tail(str))

JsonString(str) == <<"\"">> \o Escaped(str) \o <<"\"">>

\* generate_jsonl.py:118  json.dumps(line, ensure_ascii=False): the two
\* strings computed from the URL are written character by character; the
\* members that are the same in every request stand for their own text.
dumps(obj) ==
    [obj EXCEPT !.custom_id = JsonString(@),
                !.body = [@ EXCEPT !.image_url = JsonString(@)]]

\* What json.loads raises on a text that is no JSON value.
JSONDecodeError == <<"JSONDecodeError">>

\* The characters of a JSON string from position k, after its opening
\* quotation mark, up to its closing one, escapes decoded.
RECURSIVE Unescaped(_, _)
Unescaped(text, k) ==
    IF k > Len(text) \/ text[k] = "\""
       THEN <<>>
       ELSE IF text[k] = "\\" /\ k < Len(text)
               THEN <<IF text[k + 1] = "t" THEN "\t" ELSE text[k + 1]>> \o Unescaped(text, k + 2)
               ELSE <<text[k]>> \o Unescaped(text, k + 1)

\* The position of the quotation mark that closes the JSON string read from
\* position k on (past the end of the text when it is not closed).
RECURSIVE Closing(_, _)
Closing(text, k) ==
    IF k > Len(text) \/ text[k] = "\""
       THEN k
       ELSE IF text[k] = "\\" /\ k < Len(text)
               THEN Closing(text, k + 2)
               ELSE Closing(text, k + 1)

\* json.loads of the text of a string: the text is one string from its first
\* character to its last, or it is not JSON.
ParseString(text) ==
    IF text # <<>> /\ Head(text) = "\"" /\ Closing(text, 2) = Len(text)
       THEN Unescaped(text, 2)
       ELSE JSONDecodeError

\* json.loads of one line of the artifact.
loads(line) ==
    [line EXCEPT !.custom_id = ParseString(@),
                 !.body = [@ EXCEPT !.image_url = ParseString(@)]]

\* generate_jsonl.py:108  the stripped lines of the file that are not blank.
NonBlank(lines) == SelectSeq([i \in DOMAIN lines |-> Strip(lines[i])], LAMBDA l : l # <<>>)

\* A file that does not exist, and one holding lines.
Absent == [exists |-> FALSE, lines |-> <<>>]

Holding(lines) == [exists |-> TRUE, lines |-> lines]

\* A faulty variant of EncRead: the list is not checked for being empty.
EncReadUnchecked ==
    /\ enc_pc = "start"
    /\ urls' = NonBlank(url_file)
    /\ enc_pc' = "mkdir"
    /\ UNCHANGED <<runVars, rateVars, enc_args, url_file, idx, out_dir, out_file, earlier>>

\* generate_jsonl.py:108-110  read the URL file; leave when it has no URL.
EncRead ==
    /\ enc_pc = "start"
    /\ urls' = NonBlank(url_file)
    /\ enc_pc' = IF urls' = <<>> THEN "exit" ELSE "mkdir"
    /\ UNCHANGED <<runVars, rateVars, enc_args, url_file, idx, out_dir, out_file, earlier>>

\* generate_jsonl.py:112-113  make the directory of --out.
EncMkdir ==
    /\ enc_pc = "mkdir"
    /\ out_dir' = TRUE
    /\ enc_pc' = "open"
    /\ UNCHANGED <<runVars, rateVars, enc_args, url_file, urls, idx, out_file, earlier>>

\* generate_jsonl.py:115-116  open --out for writing (it is created, or
\* emptied) and start enumerate() at 1.
EncOpen ==
    /\ enc_pc = "open"
    /\ out_file' = Holding(<<>>)
    /\ idx' = 1
    /\ enc_pc' = "loop"
    /\ UNCHANGED <<runVars, rateVars, enc_args, url_file, urls, out_dir, earlier>>

\* generate_jsonl.py:116-118  encode the next url and write its line.
EncWrite ==
    /\ enc_pc = "loop"
    /\ idx <= Len(urls)
    /\ out_file' = Holding(Append(out_file.lines,
                      dumps(make_request_line(idx, urls[idx], enc_args.model,
                                              enc_args.temperature))))
    /\ idx' = idx + 1
    /\ UNCHANGED <<runVars, rateVars, enc_args, enc_pc, url_file, urls, out_dir, earlier>>

\* generate_jsonl.py:116-120  the list is exhausted: close the file and
\* print the closing line.
EncDone ==
    /\ enc_pc = "loop"
    /\ idx > Len(urls)
    /\ enc_pc' = "done"
    /\ UNCHANGED <<runVars, rateVars, enc_args, url_file, urls, idx, out_dir, out_file, earlier>>

\* generate_jsonl.py:115-118  f.write() raises (the disk is full, the process
\* is interrupted): the with statement closes the file with the lines written
\* so far, and main() ends with the exception.
EncWriteFails ==
    /\ enc_pc = "loop"
    /\ idx <= Len(urls)
    /\ enc_pc' = "raised"
    /\ UNCHANGED <<runVars, rateVars, enc_args, url_file, urls, idx, out_dir, out_file, earlier>>

\* The status the interpreter exits with: 0 when main() returns, 1 on
\* SystemExit with a message (generate_jsonl.py:110) or an exception.
ExitStatus(at) == IF at = "done" THEN 0 ELSE 1

\* ---------------------------------------------------------- rate_images
\* The characters of the file names, in the order of their code points.
CodeOrder ==
    <<".", "A", "B", "C", "D", "E", "F", "G", "H", "I", "J", "K", "L", "M", "N", "O", "P",
      "Q", "R", "S", "T", "U", "V", "W", "X", "Y", "Z", "_", "a", "b", "c", "d", "e", "f",
      "g", "h", "i", "j", "k", "l", "m", "n", "o", "p", "q", "r", "s", "t", "u", "v", "w",
      "x", "y", "z">>

Code(c) == CHOOSE i \in DOMAIN CodeOrder : CodeOrder[i] = c

\* rate_images.py:78  the order sorted() puts the paths of one directory in:
\* that of their names as strings.
RECURSIVE Less(_, _)
Less(x, y) ==
    IF x = <<>> THEN y # <<>>
    ELSE IF y = <<>> THEN FALSE
    ELSE IF Head(x) = Head(y) THEN Less(Tail(x), Tail(y))
    ELSE Code(Head(x)) < Code(Head(y))

\* rate_images.py:78  sorted()
RECURSIVE Sorted(_)
Sorted(S) ==
    IF S = {}
       THEN <<>>
       ELSE LET least == CHOOSE x \in S : \A y \in S \ {x} : Less(x, y)
            IN  <<least>> \o Sorted(S \ {least})

\* rate_images.py:80  Path.suffix: the name from its last full stop on,
\* unless that is its first or its last character.
Suffix(name) ==
    LET dots == {k \in DOMAIN name : name[k] = "."}
        at == IF dots = {} THEN 0 ELSE CHOOSE k \in dots : \A m \in dots : m <= k
    IN  IF 1 < at /\ at < Len(name) THEN SubSeq(name, at, Len(name)) ELSE <<>>

\* rate_images.py:80  str.lower()
ToLower(str) ==
    [k \in DOMAIN str |->
        IF str[k] \in Upper THEN CodeOrder[Code(str[k]) + 27] ELSE str[k]]

\* rate_images.py:80  the suffixes of the files that are rated.
ImageSuffixes ==
    {<<".", "p", "n", "g">>, <<".", "j", "p", "g">>, <<".", "j", "p", "e", "g">>,
     <<".", "w", "e", "b", "p">>}

\* rate_images.py:79-80
IsImage(name) == ToLower(Suffix(name)) \in ImageSuffixes

\* rate_images.py:86
COLUMNS == <<"file", "aesthetic", "detail", "utility_for_designer", "notes", "error">>

\* rate_images.py:94-97  dict.get
Get(r, key, default) == IF key \in DOMAIN r THEN r[key] ELSE default

\* rate_images.py:53-75  what a call of rate_image does: it raises an
\* exception with a message, or it returns what the model's answer parses
\* to, a dict or another JSON value.
Raises(msg) == [raised |-> TRUE, isdict |-> FALSE, r |-> <<>>, msg |-> msg]

Gives(r) == [raised |-> FALSE, isdict |-> TRUE, r |-> r, msg |-> ""]

GivesList == [raised |-> FALSE, isdict |-> FALSE, r |-> <<>>, msg |-> ""]

RateOutcomes ==
    {Raises("Connection error."),
     GivesList,
     Gives([k \in {"aesthetic", "detail", "utility_for_designer", "notes"} |->
               IF k = "notes" THEN "clean" ELSE "7"]),
     Gives([k \in {"aesthetic"} |-> "3"])}

\* rate_images.py:100-108  the row of an image whose rating failed.
ErrorRow(name, msg) ==
    [file |-> name, aesthetic |-> "", detail |-> "", utility_for_designer |-> "",
     notes |-> "", error |-> msg]

\* rate_images.py:90-108  the row appended for an image: the scores
\* rate_image returned, or the message of the exception raised in the try
\* block (by rate_image, or by r.get when r is no dict).
Row(name, o) ==
    IF o.raised THEN ErrorRow(name, o.msg)
    ELSE IF ~o.isdict THEN ErrorRow(name, "'list' object has no attribute 'get'")
    ELSE [file |-> name,
          aesthetic |-> Get(o.r, "aesthetic", None),
          detail |-> Get(o.r, "detail", None),
          utility_for_designer |-> Get(o.r, "utility_for_designer", None),
          notes |-> Get(o.r, "notes", ""),
          error |-> ""]

\* rate_images.py:111-113  the line csv.DictWriter writes for a row: its
\* values in the order of the columns, None as the empty string.
Cells(row) == [k \in DOMAIN COLUMNS |-> IF row[COLUMNS[k]] = None THEN "" ELSE row[COLUMNS[k]]]

\* rate_images.py:78-84  list the images of the directory, sorted; return
\* when there is none.
RateList ==
    /\ rate_pc = "start"
    /\ images' = Sorted({name \in input_dir : IsImage(name)})
    /\ rate_pc' = IF images' = <<>> THEN "return" ELSE "loop"
    /\ UNCHANGED <<runVars, encVars, input_dir, rows, rated, out_csv>>

\* A faulty variant of RateOne: an exception ends the loop.
RateOneAborts ==
    /\ rate_pc = "loop"
    /\ Len(rated) < Len(images)
    /\ \E o \in RateOutcomes :
          /\ rated' = Append(rated, o)
          /\ rows' = IF o.raised THEN rows ELSE Append(rows, Row(images[Len(rated) + 1], o))
          /\ rate_pc' = IF o.raised THEN "raised" ELSE rate_pc
    /\ UNCHANGED <<runVars, encVars, input_dir, images, out_csv>>

\* rate_images.py:89-108  rate the next image and append its row.
RateOne ==
    /\ rate_pc = "loop"
    /\ Len(rated) < Len(images)
    /\ \E o \in RateOutcomes :
          /\ rated' = Append(rated, o)
          /\ rows' = Append(rows, Row(images[Len(rated) + 1], o))
    /\ UNCHANGED <<runVars, encVars, rate_pc, input_dir, images, out_csv>>

\* rate_images.py:110-115  the loop is over: write the header and the rows.
RateWrite ==
    /\ rate_pc = "loop"
    /\ Len(rated) = Len(images)
    /\ out_csv' = Holding(<<COLUMNS>> \o [i \in DOMAIN rows |-> Cells(rows[i])])
    /\ rate_pc' = "done"
    /\ UNCHANGED <<runVars, encVars, input_dir, images, rows, rated>>

NextRate == RateList \/ RateOne \/ RateWrite

\* ------------------------------------------------------ specifications
\* The steps of one run.
Step(r) ==
    \/ ExitNoInput(r)
    \/ Upload(r)
    \/ UploadFails(r)
    \/ Create(r)
    \/ CreateFails(r)
    \/ Resume(r)
    \/ ResumeFails(r)
    \/ Retrieve(r)
    \/ RetrieveFails(r)
    \/ Report(r)
    \/ Sleep(r)
    \/ DownloadOutput(r)
    \/ DownloadOutputFails(r)
    \/ DownloadErrors(r)
    \/ DownloadErrorsFails(r)
    \/ Finish(r)

Next == \E r \in Runs : Step(r)

\* run_batch.py:24-31  the command lines the model starts runs with.
OtherInput == [dir |-> "in/", stem |-> "batch_input", suffix |-> ".jsonl"]

PollValues == {-1, 0, DefaultPoll}

CommandLines ==
    [input : {DefaultInput, OtherInput},
     window : {"24h", "48h"},
     poll : PollValues,
     resume : {None} \cup Jobs,
     out : {None, "results_1.jsonl", "results_2.jsonl"},
     err : {None, "errors_1.jsonl", "errors_2.jsonl"}]

\* The command line with every default.
Defaults ==
    [input |-> DefaultInput, window |-> "24h", poll |-> DefaultPoll,
     resume |-> None, out |-> None, err |-> None]

NoFiles == [p \in {} |-> None]

\* The jobs that exist before the runs start: those the runs resume, each
\* created earlier from an uploaded artifact.
Existing(a, started) ==
    LET js == {a[r].resume : r \in {x \in started : Resuming(a[x])}}
    IN  [j \in js |-> [input_file_id |-> "file_0", completion_window |-> "24h"]]

\* The state the runs start in, given their command lines, which runs are
\* started, the working directory and the stub.
RunsStart(a, started, dir, script) ==
    /\ args = a
    /\ pc = [r \in Runs |-> IF r \in started THEN "start" ELSE "off"]
    /\ fs = dir
    /\ wrote = NoFiles
    /\ f = [r \in Runs |-> None]
    /\ batch_id = [r \in Runs |-> None]
    /\ b = [r \in Runs |-> NoJob]
    /\ status = [r \in Runs |-> None]
    /\ counts = [r \in Runs |-> NoCounts]
    /\ last = [r \in Runs |-> NoOp]
    /\ issued = [r \in Runs |-> [k \in Kinds |-> 0]]
    /\ fetched = [r \in Runs |-> <<>>]
    /\ rfiles = ("file_0" :> Artifact)
    /\ jobs = Existing(a, started)
    /\ served = [j \in Jobs |-> NoJob]
    /\ stub = script

\* generate_jsonl.py:104-105  the defaults of --model and --temperature.
EncDefaults == [model |-> "gpt-4o", temperature |-> "0.2"]

\* No run of the encoder before this one.
NoRun == [ran |-> FALSE, args |-> EncDefaults, urls |-> <<>>, lines |-> <<>>]

\* generate_jsonl has not been started.
EncOff ==
    /\ enc_args = EncDefaults
    /\ enc_pc = "off"
    /\ url_file = <<>>
    /\ urls = <<>>
    /\ idx = 0
    /\ out_dir = FALSE
    /\ out_file = Absent
    /\ earlier = NoRun

\* rate_images has not been started.
RateOff ==
    /\ rate_pc = "off"
    /\ input_dir = {}
    /\ images = <<>>
    /\ rows = <<>>
    /\ rated = <<>>
    /\ out_csv = Absent

Start(a, started, dir, script) ==
    RunsStart(a, started, dir, script) /\ EncOff /\ RateOff

\* The working directories a run may find: its input file there or not.
Dirs(a) == {NoFiles, (PathStr(a.input) :> Artifact)}

NoStub == [j \in Jobs |-> <<>>]

\* One run against the live service: the default input, the output and
\* error paths both given or both left to their defaults.
SingleLines ==
    {a \in CommandLines :
        /\ a.input = DefaultInput
        /\ a.resume \in {None, "batch_A"}
        /\ a.out \in {None, "results_1.jsonl"}
        /\ a.err \in {None, "errors_1.jsonl"}
        /\ (a.out = None) = (a.err = None)}

Init ==
    \E a \in SingleLines : \E dir \in Dirs(a) :
       Start([r \in Runs |-> IF r = 1 THEN a ELSE Defaults], {1}, dir, NoStub)

Spec == Init /\ [][Next]_vars

\* A stub's canned answer with status st: the counts, an output file for
\* a job that completed or expired (partial results), an error file for a
\* job that ended otherwise than completed.
Canned(j, st) ==
    [id |-> j, status |-> st, request_counts |-> <<MaxReq, 1, 0>>,
     output_file_id |-> IF st \in {"completed", "expired"} THEN OutId(j) ELSE None,
     error_file_id |-> IF st \in TERMINAL \ {"completed"} THEN ErrId(j) ELSE None]

\* The finite status sequences a job goes through: statuses that are not
\* terminal (or no status at all), then one terminal status.
StatusScripts ==
    {sq \in UNION {[1..n -> TERMINAL \cup NonTerminal \cup {None}] : n \in 1..MaxQueries} :
        /\ Last(sq) \in TERMINAL
        /\ \A i \in 1..(Len(sq) - 1) : sq[i] \notin TERMINAL}

\* The stub that answers every job with the script sq.
Stubbed(sq) == [j \in Jobs |-> [i \in DOMAIN sq |-> Canned(j, sq[i])]]

\* One run against a stub that ticks through a canned status sequence
\* ending in a terminal status.
StubLines ==
    {a \in SingleLines : a.window = "24h" /\ a.out = None}

InitStub ==
    \E a \in StubLines : \E dir \in Dirs(a) : \E sq \in StatusScripts :
       Start([r \in Runs |-> IF r = 1 THEN a ELSE Defaults], {1}, dir, Stubbed(sq))

\* main() is one sequential process: while a step is possible it is taken.
SpecStub == InitStub /\ [][Next]_vars /\ WF_vars(Step(1))

\* Two runs side by side, for two different jobs: each either submits its
\* own input or resumes its own job, with its own output and error paths or
\* the defaults. The input files exist, both or none.
JobOf(r) == IF r = 1 THEN "batch_A" ELSE "batch_B"

ConcLines(r) ==
    {a \in CommandLines :
        /\ a.window = "24h"
        /\ a.poll = DefaultPoll
        /\ a.resume \in {None, JobOf(r)}
        /\ a.out \in {None, IF r = 1 THEN "results_1.jsonl" ELSE "results_2.jsonl"}
        /\ a.err \in {None, IF r = 1 THEN "errors_1.jsonl" ELSE "errors_2.jsonl"}
        /\ (a.out = None) = (a.err = None)}

BothInputs ==
    (PathStr(DefaultInput) :> Artifact) @@ (PathStr(OtherInput) :> Artifact)

InitConc ==
    \E a1 \in ConcLines(1) : \E a2 \in ConcLines(2) : \E dir \in {BothInputs, NoFiles} :
       Start([r \in Runs |-> IF r = 1 THEN a1 ELSE a2], Runs, dir,
             Stubbed(<<"in_progress", "expired">>))

SpecConc == InitConc /\ [][Next]_vars

\* Lines of the URL file: example URLs, and every short line over a few
\* characters.
UrlA == <<"h", "t", "t", "p", ":", "/", "/", "x", "/", "a", ".", "p", "n", "g">>

UrlQuery ==
    <<"h", "t", "t", "p", ":", "/", "/", "y", "/", "a", ".", "p", "n", "g",
      "?", "v", "=", "1", "/", "2">>

UrlSpaces ==
    <<" ", "h", "t", "t", "p", ":", "/", "/", "x", "/", "m", "y", " ", "s",
      "h", "o", "t", "(", "1", ")", ".", "P", "N", "G", " ">>

UrlDir == <<"h", "t", "t", "p", ":", "/", "/", "x", "/", "d", "i", "r", "/">>

\* A URL whose last path segment is longer than a stem may be.
UrlLong == <<"x", "/">> \o [i \in 1..(StemMax + 2) |-> IF i % 2 = 0 THEN "0" ELSE "-"]

\* A URL with characters JSON escapes.
UrlQuote == <<"x", "/", "a", "\"", "\\", "\t", "b">>

ExampleUrls == {UrlA, UrlQuery, UrlSpaces, UrlDir, UrlLong, UrlQuote}

ShortLines == UNION {[1..n -> {"a", "/", "?", " "}] : n \in 0..MaxLineLen}

\* The URL files the encoder is run on: up to MaxUrls example URLs, or a
\* short line, once or twice.
UrlFiles ==
    UNION {[1..n -> ExampleUrls] : n \in 0..MaxUrls}
       \cup {<<l>> : l \in ShortLines} \cup {<<l, l>> : l \in ShortLines}

\* generate_jsonl.py:101-106  the command lines the encoder is run with.
EncCommandLines == [model : {"gpt-4o", "gpt-4o-mini"}, temperature : {"0.2", "0"}]

\* The URL files of a second run: the same file, the file with a line more,
\* and the file with another first line.
Again(file) == {file, Append(file, UrlQuery), <<UrlDir>> \o Tail(file)}

\* generate_jsonl.py:100-106  the script is started once more after a run
\* with the default model and temperature that has written its artifact,
\* now with any model and temperature, on the same --out.
EncAgain ==
    /\ enc_pc = "done"
    /\ ~earlier.ran
    /\ enc_args = EncDefaults
    /\ earlier' = [ran |-> TRUE, args |-> enc_args, urls |-> urls, lines |-> out_file.lines]
    /\ enc_args' \in EncCommandLines
    /\ url_file' \in Again(url_file)
    /\ urls' = <<>>
    /\ idx' = 0
    /\ enc_pc' = "start"
    /\ UNCHANGED <<runVars, rateVars, out_dir, out_file>>

NextEnc == EncRead \/ EncMkdir \/ EncOpen \/ EncWrite \/ EncWriteFails \/ EncDone \/ EncAgain

\* generate_jsonl alone, on any of the URL files; the output file is there
\* already (with its directory) or not.
InitEnc ==
    /\ RunsStart([r \in Runs |-> Defaults], {}, NoFiles, NoStub)
    /\ enc_args \in EncCommandLines
    /\ enc_pc = "start"
    /\ url_file \in UrlFiles
    /\ urls = <<>>
    /\ idx = 0
    /\ out_dir \in BOOLEAN
    /\ out_file \in {Absent} \cup {Holding(<<"stale">>) : x \in {t \in {TRUE} : out_dir}}
    /\ earlier = NoRun
    /\ RateOff

SpecEnc == InitEnc /\ [][NextEnc]_vars

\* The names an entry of INPUT_DIR may have: images, one of them with an
\* upper-case name and one with an upper-case suffix, a text file, and a
\* hidden file named like a suffix.
DirEntries ==
    {<<"b", ".", "p", "n", "g">>, <<"a", ".", "J", "P", "G">>,
     <<"B", ".", "j", "p", "e", "g">>, <<"a", ".", "t", "x", "t">>,
     <<"c", ".", "w", "e", "b", "p">>, <<".", "p", "n", "g">>}

\* rate_images alone, on a directory of up to MaxImages entries; a report
\* written before is there or not.
InitRate ==
    /\ RunsStart([r \in Runs |-> Defaults], {}, NoFiles, NoStub)
    /\ EncOff
    /\ rate_pc = "start"
    /\ input_dir \in {S \in SUBSET DirEntries : Cardinality(S) <= MaxImages}
    /\ images = <<>>
    /\ rows = <<>>
    /\ rated = <<>>
    /\ out_csv \in {Absent, Holding(<<<<"stale">>>>)}

SpecRate == InitRate /\ [][NextRate]_vars

\* ---------------------------------------------------------------- claims
\* The positions of main() after the polling loop.
AfterLoop == {"dl_out", "dl_err", "finish", "done"}

\* The status the service returned to run r's last query.
Returned(r) == StatusOf(served[batch_id[r]])

\* C1: after every query of the polling loop the loop is left (for the
\* downloads) if and only if the status just returned is one of completed,
\* failed, expired, cancelled; on any other status, "unknown" included, the
\* run goes to the wait of the poll interval, and what it issues after a
\* wait is another query. No download is issued unless the status held is
\* terminal.
C1_PollUntilTerminal ==
    /\ [](\A r \in Runs :
            /\ pc[r] = "sleep" => status[r] \notin {"completed", "failed", "expired", "cancelled"}
            /\ pc[r] \in AfterLoop => status[r] \in {"completed", "failed", "expired", "cancelled"}
            /\ issued[r]["download"] > 0 =>
                  Returned(r) \in {"completed", "failed", "expired", "cancelled"})
    /\ [][\A r \in Runs :
            /\ (pc[r] = "report" /\ pc'[r] # "report") =>
                  /\ pc'[r] \in {"dl_out", "sleep"}
                  /\ (pc'[r] = "dl_out") =
                        (Returned(r) \in {"completed", "failed", "expired", "cancelled"})
            /\ (last[r].op = "sleep" /\ issued'[r] # issued[r]) => last'[r].op = "get"]_vars

\* C1's case: a run that went on polling on "unknown" and left the loop on
\* the second answer, "cancelled".
C1_Witness ==
    \E r \in Runs :
       /\ pc[r] = "dl_out"
       /\ issued[r]["sleep"] = 1
       /\ issued[r]["report"] = 2
       /\ status[r] = "cancelled"

\* The polling loop of run r is over: left for the downloads, or ended by
\* an exception or by sys.exit before it.
LoopLeft(r) == pc[r] \in AfterLoop \cup {"raised", "exit"}

\* C2: against a stub whose get-job answers tick through a finite canned
\* status sequence ending in a terminal status, the polling loop ends after
\* finitely many queries; the loop goes on (to another wait) only after a
\* status that is not terminal.
C2_StubTerminates ==
    /\ <>LoopLeft(1)
    /\ [](pc[1] = "sleep" => Returned(1) \notin {"completed", "failed", "expired", "cancelled"})

\* C2's case: the stub has ticked through its whole script, one query per
\* answer, and the loop was left on the last, terminal answer.
C2_Witness ==
    /\ pc[1] = "dl_out"
    /\ args[1].resume = None
    /\ issued[1]["get"] = MaxQueries
    /\ issued[1]["sleep"] = MaxQueries - 1
    /\ Len(stub[batch_id[1]]) = 1
    /\ status[1] = "completed"

\* C3: a run started in resume mode issues no upload-file and no create-job,
\* never ends on the missing-input exit, and every get-job query it issues
\* targets the job id it was given.
C3_ResumeSkipsSubmission ==
    \A r \in Runs :
       args[r].resume # None =>
          /\ issued[r]["upload"] = 0
          /\ issued[r]["create"] = 0
          /\ f[r] = None
          /\ pc[r] # "exit"
          /\ last[r].op = "get" => last[r].target = args[r].resume
          /\ batch_id[r] \in {None, args[r].resume}

\* C3's case: a resumed run whose input file does not exist has polled its
\* job to a terminal status and finished.
C3_Witness ==
    \E r \in Runs :
       /\ args[r].resume # None
       /\ PathStr(args[r].input) \notin DOMAIN fs
       /\ issued[r]["get"] >= 2
       /\ pc[r] = "done"

\* C4: a run not in resume mode issues upload-file and create-job at most
\* once each; create-job is issued only after upload-file has succeeded and
\* the job is created from the handle upload returned; when upload or
\* create-job fails the run ends there: nothing is retried, no get-job and
\* no download is issued.
C4_SubmitOnceInOrder ==
    \A r \in Runs :
       args[r].resume = None =>
          /\ issued[r]["upload"] <= 1
          /\ issued[r]["create"] <= 1
          /\ issued[r]["create"] = 1 =>
                /\ issued[r]["upload"] = 1
                /\ f[r] \in DOMAIN rfiles
                /\ rfiles[f[r]] = fs[PathStr(args[r].input)]
          /\ batch_id[r] # None =>
                /\ batch_id[r] \in DOMAIN jobs
                /\ jobs[batch_id[r]].input_file_id = f[r]
                /\ jobs[batch_id[r]].completion_window = args[r].window
          /\ (last[r].op \in {"upload", "create"} /\ last[r].val = "error") => pc[r] = "raised"
          /\ (issued[r]["get"] > 0 \/ issued[r]["download"] > 0) => batch_id[r] # None
          /\ (pc[r] = "raised" /\ batch_id[r] = None) =>
                (issued[r]["get"] = 0 /\ issued[r]["download"] = 0)

\* C4's case: upload succeeded, create-job failed, and the run has ended.
C4_Witness ==
    \E r \in Runs :
       /\ args[r].resume = None
       /\ f[r] # None
       /\ last[r] = Op("create", f[r], "error")
       /\ pc[r] = "raised"

\* C5: what a run holds and acts on from its first loop query on is the
\* whole answer of its last query (status, counts, output and error refs);
\* once the loop is left on a terminal status the run issues no further
\* get-job and the snapshot it holds does not change.
C5_SnapshotIsLastAnswer ==
    /\ [](\A r \in Runs :
            /\ pc[r] \in {"report", "sleep"} \cup AfterLoop =>
                  /\ b[r] = served[batch_id[r]]
                  /\ status[r] = StatusOf(served[batch_id[r]])
                  /\ counts[r] = served[batch_id[r]].request_counts
            /\ (pc[r] \in AfterLoop /\ last[r].op = "download") =>
                  last[r].target \in {served[batch_id[r]].output_file_id,
                                      served[batch_id[r]].error_file_id} \ {None}
            /\ pc[r] = "done" => last[r].val = served[batch_id[r]].status)
    /\ [][\A r \in Runs :
            pc[r] \in AfterLoop =>
               /\ b'[r] = b[r]
               /\ issued'[r]["get"] = issued[r]["get"]]_vars

\* C5's case: a run whose second loop query brought the refs the earlier
\* answers did not have, now past its downloads.
C5_Witness ==
    \E r \in Runs :
       /\ pc[r] = "finish"
       /\ issued[r]["report"] = 2
       /\ issued[r]["download"] = 2
       /\ b[r].request_counts # NoCounts

\* C6: every get-job query a run issues, in resume mode or not, is followed
\* by a progress report carrying that query's status before the run issues
\* anything else.
C6_ReportAfterEveryQuery ==
    [][\A r \in Runs :
         (last[r].op = "get" /\ last[r].val # "error" /\ issued'[r] # issued[r]) =>
            (last'[r].op = "report" /\ last'[r].target = last[r].val)]_vars

\* C7: a run whose poll interval is not strictly positive never reaches the
\* wait of the polling loop; every wait issued is strictly positive.
C7_WaitIsPositive ==
    \A r \in Runs :
       /\ pc[r] = "sleep" => args[r].poll > 0
       /\ last[r].op = "sleep" => last[r].secs > 0

\* The lines of the file at path p as run r has written it (none when the
\* run has not written it).
Written(r, p) ==
    IF p \in DOMAIN wrote /\ r \in wrote[p] THEN Range(fs[p]) ELSE {}

\* The outcomes a finished run has produced for the request custom_id: a
\* line of the output file it saved, a line of the error file it saved.
\* run_batch.py produces nothing else; no request is reported missing.
Outcomes(r, custom_id) ==
    {o \in {"success", "failed", "missing"} :
        \/ o = "success" /\ custom_id \in Written(r, OutPath(args[r]))
        \/ o = "failed" /\ custom_id \in Written(r, ErrPath(args[r]))}

\* The custom_ids of the artifact run r's job was created from.
Submitted(r) == Range(rfiles[jobs[batch_id[r]].input_file_id])

\* C8: once a run has finished, every custom_id of the submitted artifact
\* has exactly one outcome among success, failed and missing.
C8_OneOutcomePerRequest ==
    \A r \in Runs :
       pc[r] = "done" =>
          \A id \in Submitted(r) : Cardinality(Outcomes(r, id)) = 1

\* C9: the output and error files written by one of two runs polling
\* different jobs are never written by the other.
C9_RunsShareNoFile ==
    batch_id[1] # batch_id[2] =>
       \A p \in DOMAIN wrote : Cardinality(wrote[p]) <= 1

\* The lines of the URL file that hold a URL: those not made of whitespace
\* only.
Items == {i \in DOMAIN url_file : \E k \in DOMAIN url_file[i] : url_file[i][k] \notin {" ", "\t"}}

\* C10: for every URL file with at least one URL (the same URL may occur
\* more than once) the encoder writes exactly one request per URL, and the
\* custom_ids of the requests written are pairwise distinct.
C10_OneRequestPerItem ==
    LET reqs == [i \in DOMAIN out_file.lines |-> loads(out_file.lines[i])]
    IN  enc_pc \in {"loop", "done"} =>
           /\ Len(reqs) <= Cardinality(Items)
           /\ enc_pc = "done" => Len(reqs) = Cardinality(Items)
           /\ \A i, j \in DOMAIN reqs : i # j => reqs[i].custom_id # reqs[j].custom_id

\* C10's case: the same URL twice, both requests written.
C10_Witness ==
    /\ enc_pc = "done"
    /\ url_file = <<UrlA, UrlA>>
    /\ Len(out_file.lines) = 2

\* The request the i-th line of the artifact parses to.
Request(i) == loads(out_file.lines[i])

\* The encoder has run to its end on the list of the scenario.
ScenarioDone == enc_pc = "done" /\ url_file = <<UrlA, UrlA>>

\* C11 as stated: for the list ["http://x/a.png", "http://x/a.png"] the two
\* requests written have the custom_ids ui-00001-a_png and ui-00002-a_png.
C11_IdsAsStated ==
    ScenarioDone =>
       /\ Len(out_file.lines) = 2
       /\ Request(1).custom_id =
             <<"u", "i", "-", "0", "0", "0", "0", "1", "-", "a", "_", "p", "n", "g">>
       /\ Request(2).custom_id =
             <<"u", "i", "-", "0", "0", "0", "0", "2", "-", "a", "_", "p", "n", "g">>

\* C11, amended: for the list ["http://x/a.png", "http://x/a.png"] the two
\* requests written have the custom_ids ui-00001-a.png and ui-00002-a.png
\* (the full stop is a character the stem keeps).
C11_ScenarioIds ==
    ScenarioDone =>
       /\ Len(out_file.lines) = 2
       /\ Request(1).custom_id =
             <<"u", "i", "-", "0", "0", "0", "0", "1", "-", "a", ".", "p", "n", "g">>
       /\ Request(2).custom_id =
             <<"u", "i", "-", "0", "0", "0", "0", "2", "-", "a", ".", "p", "n", "g">>

\* C11's case: the scenario's list encoded, the two ids apart.
C11_Witness ==
    /\ ScenarioDone
    /\ ~earlier.ran
    /\ Request(1).custom_id # Request(2).custom_id

\* C12: when the writing of the artifact has failed, the file at --out does
\* not hold fewer request lines than there are URLs.
C12_NoPartialArtifact ==
    enc_pc = "raised" => ~(out_file.exists /\ Len(out_file.lines) < Len(urls))

\* The line of the URL file that holds the i-th URL.
ItemLine(i) == CHOOSE k \in Items : Cardinality({j \in Items : j < k}) = i - 1

\* The i-th target of the input list.
Target(i) == Strip(url_file[ItemLine(i)])

\* C13: the artifact holds one line per request written so far and, when the
\* run is done, one per URL; the i-th line parses to a request with the
\* custom_id of (i, i-th target) and with the i-th target.
C13_RoundTrip ==
    enc_pc \in {"loop", "done"} =>
       /\ Len(out_file.lines) = idx - 1
       /\ enc_pc = "done" => Len(out_file.lines) = Cardinality(Items)
       /\ \A i \in DOMAIN out_file.lines :
             /\ Request(i).custom_id = CustomId(i, Target(i))
             /\ Request(i).body.image_url = Target(i)

\* C13's case: two different URLs, one of them with characters JSON
\* escapes, written and read back in their order.
C13_Witness ==
    /\ enc_pc = "done"
    /\ url_file = <<UrlQuote, UrlA>>
    /\ Request(1).body.image_url = UrlQuote
    /\ Request(2).body.image_url = UrlA

\* C14: a run on a URL file without a URL ends with a non-zero exit status,
\* and none of its steps creates the directory of --out or creates or
\* empties the file at --out.
C14_EmptyInputNoEffect ==
    /\ [](Items = {} /\ enc_pc # "start" => enc_pc = "exit" /\ ExitStatus(enc_pc) # 0)
    /\ [][Items = {} => out_dir' = out_dir /\ out_file' = out_file]_vars

\* C14's case: a URL file of blank lines, and an artifact written before
\* that is still there after the run.
C14_Witness ==
    /\ enc_pc = "exit"
    /\ url_file = <<<<" ">>, <<" ">>>>
    /\ out_file = Holding(<<"stale">>)

\* The request the i-th line of the earlier run's artifact parses to.
EarlierRequest(i) == loads(earlier.lines[i])

\* C15: in a second run of the encoder, with whatever model and temperature,
\* a URL at the index it had in the first run gets the custom_id it got
\* then, whatever the other URLs are; a run on the same list writes the same
\* sequence of custom_ids.
C15_IdOfIndexAndTarget ==
    earlier.ran /\ enc_pc \in {"loop", "done"} =>
       /\ \A i \in DOMAIN out_file.lines \cap DOMAIN earlier.lines :
             urls[i] = earlier.urls[i] =>
                Request(i).custom_id = EarlierRequest(i).custom_id
       /\ enc_pc = "done" /\ urls = earlier.urls =>
             [i \in DOMAIN out_file.lines |-> Request(i).custom_id]
                = [i \in DOMAIN earlier.lines |-> EarlierRequest(i).custom_id]

\* C15's case: a second run with another model and temperature on a list
\* that shares its first URL with the first run's and differs after it.
C15_Witness ==
    /\ earlier.ran
    /\ enc_pc = "done"
    /\ earlier.args.model # enc_args.model
    /\ earlier.args.temperature # enc_args.temperature
    /\ urls # earlier.urls
    /\ urls[1] = earlier.urls[1]
    /\ Request(1).custom_id = EarlierRequest(1).custom_id

\* The schema the i-th request of the artifact embeds.
Schema(i) == Request(i).body.format.schema

Due(snap) ==
    (IF snap.output_file_id # None THEN <<snap.output_file_id>> ELSE <<>>)
       \o (IF snap.error_file_id # None THEN <<snap.error_file_id>> ELSE <<>>)

\* C17: a run downloads nothing before its loop has ended on a terminal
\* snapshot; from then on it has asked for a beginning of the downloads due
\* for that snapshot (the output file once if the snapshot names one, then
\* the error file once if it names one, each decided by its own ref), and
\* for all of them when it has reached its end.
C17_DownloadsFollowRefs ==
    \A r \in Runs :
       /\ fetched[r] # <<>> =>
             /\ b[r].status \in TERMINAL
             /\ b[r] = served[batch_id[r]]
             /\ Len(fetched[r]) <= Len(Due(b[r]))
             /\ fetched[r] = SubSeq(Due(b[r]), 1, Len(fetched[r]))
       /\ pc[r] \in {"finish", "done"} => fetched[r] = Due(b[r])
       /\ pc[r] = "dl_err" =>
             fetched[r] = (IF b[r].output_file_id # None THEN <<b[r].output_file_id>> ELSE <<>>)

\* C17's case: a job that was cancelled and has an error file but no output
\* file: the run has ended with the error file alone downloaded.
C17_Witness ==
    \E r \in Runs :
       /\ pc[r] = "done"
       /\ b[r].status = "cancelled"
       /\ b[r].output_file_id = None
       /\ fetched[r] = <<b[r].error_file_id>>
       /\ ErrPath(args[r]) \in DOMAIN fs

\* The slug of the i-th request written: what follows "ui-", the five digits
\* of the index and "-" in its custom_id.
Slug(i) ==
    LET id == Request(i).custom_id
    IN  SubSeq(id, 10, Len(id))

\* The characters a slug may hold.
SlugChars ==
    {"a", "b", "c", "d", "e", "f", "g", "h", "i", "j", "k", "l", "m", "n", "o", "p", "q",
     "r", "s", "t", "u", "v", "w", "x", "y", "z", "A", "B", "C", "D", "E", "F", "G", "H",
     "I", "J", "K", "L", "M", "N", "O", "P", "Q", "R", "S", "T", "U", "V", "W", "X", "Y",
     "Z", "0", "1", "2", "3", "4", "5", "6", "7", "8", "9", ".", "_", "-"}

\* The trailing path segment of a target with everything from its first '?'
\* removed.
Segment(t) ==
    LET marks == {k \in DOMAIN t : t[k] = "?"}
        cut == IF marks = {} THEN Len(t) ELSE (CHOOSE k \in marks : \A m \in marks : k <= m) - 1
        slashes == {k \in 1..cut : t[k] = "/"}
        from == IF slashes = {} THEN 1 ELSE (CHOOSE k \in slashes : \A m \in slashes : m <= k) + 1
    IN  [k \in 1..(cut + 1 - from) |-> t[from + k - 1]]

\* The slug the rule gives a target.
SlugOf(t) ==
    LET seg == IF Segment(t) = <<>> THEN <<"i", "m", "a", "g", "e">> ELSE Segment(t)
        n == IF Len(seg) > 60 THEN 60 ELSE Len(seg)
    IN  [k \in 1..n |-> IF seg[k] \in SlugChars THEN seg[k] ELSE "_"]

C19_MissingInputExits ==
    \A r \in Runs :
       (/\ pc[r] \notin {"off", "start"}
        /\ ~Resuming(args[r])
        /\ PathStr(args[r].input) \notin DOMAIN fs) =>
          /\ pc[r] = "exit"
          /\ \A k \in {"upload", "create", "get", "download"} : issued[r][k] = 0
          /\ fetched[r] = <<>>
          /\ \A p \in DOMAIN wrote : r \notin wrote[p]
          /\ {OutPath(args[r]), ErrPath(args[r])} \cap DOMAIN fs = {}

\* C19's case: a run with --out and --err given has exited in a directory
\* without its input file.
C19_Witness ==
    \E r \in Runs :
       /\ pc[r] = "exit"
       /\ args[r].out # None
       /\ fs = NoFiles
       /\ rfiles = ("file_0" :> Artifact)

\* The entries of the directory that are images.
ImageFiles == {name \in input_dir : IsImage(name)}

\* The rating of the i-th image failed: rate_image raised, or what it
\* returned is no dict.
Failed(i) == rated[i].raised \/ ~rated[i].isdict

\* C20: every call of rate_image, failed or not, has added one row; the rows
\* are those of the images of the directory in sorted order, one each; the
\* row of an image whose rating failed holds its name, the message and
\* empty scores; and a run that has rated the last image has written the
\* report with the header and every row.
C20_OneRowPerImage ==
    /\ rate_pc # "raised"
    /\ Len(rows) = Len(rated)
    /\ Len(rows) <= Cardinality(ImageFiles)
    /\ \A i \in DOMAIN rows :
          /\ rows[i].file \in ImageFiles
          /\ Cardinality({name \in ImageFiles : Less(name, rows[i].file)}) = i - 1
          /\ Failed(i) =>
                /\ rows[i].error # ""
                /\ rows[i].aesthetic = "" /\ rows[i].detail = ""
                /\ rows[i].utility_for_designer = "" /\ rows[i].notes = ""
          /\ rated[i].raised => rows[i].error = rated[i].msg
    /\ rate_pc = "done" =>
          /\ Len(rows) = Cardinality(ImageFiles)
          /\ out_csv.exists
          /\ Len(out_csv.lines) = Len(rows) + 1
          /\ \A i \in DOMAIN rows :
                /\ out_csv.lines[i + 1][1] = rows[i].file
                /\ out_csv.lines[i + 1][6] = rows[i].error

\* C20's case: two images, B.jpeg sorted before a.JPG; the rating of the
\* first one failed and that of the second one did not; the report holds
\* both rows.
C20_Witness ==
    /\ rate_pc = "done"
    /\ input_dir = {<<"a", ".", "J", "P", "G">>, <<"B", ".", "j", "p", "e", "g">>}
    /\ rows[1].file = <<"B", ".", "j", "p", "e", "g">>
    /\ Len(rows) = 2
    /\ rated[1].raised
    /\ rows[1].error = "Connection error."
    /\ rated[2].isdict
    /\ rows[2].error = ""
    /\ Len(out_csv.lines) = 3

=============================================================================
